---------------------------- MODULE Spec2Model ----------------------------
(***************************************************************************)
(* A model of web/proxy/feature_store.py: the markdown cleaner and chunker *)
(* of FeatureStore, the preprocess / ingress / load operations on the work *)
(* directory, and the command-line entry point.                            *)
(*                                                                         *)
(* A text is a sequence of characters; a character is a one-element name   *)
(* ("[", "a", "NL" for the line feed, "Idot" for U+0130, "dot" for U+0307).*)
(***************************************************************************)
EXTENDS Integers, Sequences, FiniteSets, TLC

VARIABLES
    text,        \* clean_md: the input text
    new_text,    \* clean_md: clean_md(text), "-" before the call
    again,       \* clean_md: clean_md(clean_md(text)), "-" before the call
    cleanPc,     \* "input" while the text is typed, "done" after clean_md
    docs,        \* split_md: the segments head_splitter.split_text returned
    subdocs,     \* split_md: per segment, what md_splitter.create_documents returned
    final,       \* split_md: the chunks returned
    mdPc,        \* "input" before split_md is called, "done" after it returned
    filepaths,   \* initialize / preprocess: the argument of the call in progress or last made
    preDir,      \* work_dir/preprocess: [exists, files], files a function base name -> content
    counter,     \* (success_cnt, fail_cnt, skip_cnt) preprocess returned last
    touched,     \* whether something else wrote to work_dir/preprocess since preprocess returned
    db,          \* the index directories of work_dir: name -> [exists, saved, index]
    initPc,      \* where initialize is: "idle", "ingress_response", "ingress_reject"
    initResult,  \* how the last initialize ended: "none", "running", "returned", "raised"
    readBy,      \* per index directory, the (name, content) pairs its build of this call read
    builtNow,    \* the index directories saved by the initialize call in progress or last made
    rejecter,    \* FeatureStore.rejecter: "None" or the directory it was loaded from
    retriever,   \* FeatureStore.retriever, likewise
    compression_retriever,   \* FeatureStore.compression_retriever, likewise
    loadResult,  \* the last load_feature on this object: [resp, rej, result]
    calls,       \* the calls made so far
    lastCall,    \* the last call made: "none", "initialize", "load_feature", "FeatureStore"
    envChanges,  \* the changes made so far to work_dir/preprocess by others
    mainPc,      \* __main__: the statement it is at, "exit", "crashed"; "off" when not run
    sample,      \* args.sample: "None" or the name of a file
    questions,   \* the number of questions in the file args.sample names
    done,        \* the steps of __main__ that have completed, in order
    err          \* what ended __main__ early: "none", or what raised

cleanVars == <<text, new_text, again, cleanPc>>
mdVars == <<docs, subdocs, final, mdPc>>
fsVars == <<filepaths, preDir, counter, touched, db, initPc, initResult, readBy, builtNow>>
objVars == <<rejecter, retriever, compression_retriever, loadResult>>
storeVars == <<fsVars, objVars, calls, lastCall, envChanges>>
mainVars == <<mainPc, sample, questions, done, err>>
vars == <<cleanVars, mdVars, storeVars, mainVars>>

\* The parts of the state a specification does not use stay as they start.
CleanIdle ==
    /\ text = <<>>
    /\ new_text = <<"-">>
    /\ again = <<"-">>
    /\ cleanPc = "input"

MdIdle ==
    /\ docs = <<>>
    /\ subdocs = <<>>
    /\ final = <<>>
    /\ mdPc = "input"

DbNames == {"db_response", "db_reject", "db_other"}

\* The directory names load_feature is called with: the defaults, or another.
RespNames == {"db_response", "db_other"}
RejNames == {"db_reject", "db_other"}

NoDir == [exists |-> FALSE, saved |-> FALSE, index |-> <<>>]

\* A fresh work directory and a FeatureStore as __init__ leaves it (lines 54-56).
StoreIdle ==
    /\ filepaths = <<>>
    /\ preDir = [exists |-> FALSE, files |-> <<>>]
    /\ counter = <<0, 0, 0>>
    /\ touched = FALSE
    /\ db = [d \in DbNames |-> NoDir]
    /\ initPc = "idle"
    /\ initResult = "none"
    /\ readBy = [d \in DbNames |-> {}]
    /\ builtNow = {}
    /\ rejecter = "None"
    /\ retriever = "None"
    /\ compression_retriever = "None"
    /\ loadResult = [resp |-> "-", rej |-> "-", result |-> "none"]
    /\ calls = 0
    /\ lastCall = "none"
    /\ envChanges = 0

MainIdle ==
    /\ mainPc = "off"
    /\ sample = "None"
    /\ questions = 0
    /\ done = <<>>
    /\ err = "none"

(***************************************************************************)
(* Text helpers                                                            *)
(***************************************************************************)
MinUnderline == 5

MaxTextLen == 8

NL == "NL"

Min(S) == CHOOSE x \in S : \A y \in S : x <= y

\* s[i..] starts with p
StartsAt(s, i, p) ==
    /\ i >= 1
    /\ i + Len(p) - 1 <= Len(s)
    /\ SubSeq(s, i, i + Len(p) - 1) = p

(***************************************************************************)
(* clean_md, feature_store.py 130-149                                      *)
(***************************************************************************)
\* The matches of \[(.*?)\]\(.*?\) that start at the "[" at s: <<j, k>> where
\* "](" is at j, j+1 and ")" at k; "." does not match a line feed.
LinkEnds(t, s) ==
    { jk \in ((s + 1)..Len(t)) \X ((s + 3)..Len(t)) :
        /\ jk[1] + 1 <= Len(t)
        /\ t[jk[1]] = "]"
        /\ t[jk[1] + 1] = "("
        /\ jk[2] >= jk[1] + 2
        /\ t[jk[2]] = ")"
        /\ \A m \in ((s + 1)..(jk[1] - 1)) \cup ((jk[1] + 2)..(jk[2] - 1)) :
              t[m] # NL }

\* Both groups are lazy: the shortest label, then the shortest target.
LinkMatch(t, s) ==
    LET j == Min({ jk[1] : jk \in LinkEnds(t, s) })
        k == Min({ jk[2] : jk \in { x \in LinkEnds(t, s) : x[1] = j } })
    IN  <<j, k>>

\* re.sub(pattern_ref, r'\1', text) from position pos: leftmost matches, not
\* overlapping, each replaced by its label.
RECURSIVE SubRef(_, _)
SubRef(t, pos) ==
    IF pos > Len(t) THEN <<>>
    ELSE IF t[pos] = "[" /\ LinkEnds(t, pos) # {}
         THEN LET jk == LinkMatch(t, pos)
              IN  SubSeq(t, pos + 1, jk[1] - 1) \o SubRef(t, jk[2] + 1)
         ELSE <<t[pos]>> \o SubRef(t, pos + 1)

\* A backquote is the character "bq".
Fence == <<"bq", "bq", "bq">>

\* The closing fences of pattern_code opened at s (DOTALL: line feeds match).
FenceEnds(t, s) == { e \in (s + 3)..Len(t) : StartsAt(t, e, Fence) }

\* re.sub(pattern_code, '', new_text, flags=re.DOTALL) from position pos.
RECURSIVE SubCode(_, _)
SubCode(t, pos) ==
    IF pos > Len(t) THEN <<>>
    ELSE IF StartsAt(t, pos, Fence) /\ FenceEnds(t, pos) # {}
         THEN SubCode(t, Min(FenceEnds(t, pos)) + 3)
         ELSE <<t[pos]>> \o SubCode(t, pos + 1)

\* The length of the run of underscores that starts at pos.
RECURSIVE RunLen(_, _)
RunLen(t, pos) ==
    IF pos > Len(t) \/ t[pos] # "_" THEN 0 ELSE 1 + RunLen(t, pos + 1)

\* re.sub('_{5,}', '', new_text) from position pos.
RECURSIVE SubUnderline(_, _)
SubUnderline(t, pos) ==
    IF pos > Len(t) THEN <<>>
    ELSE LET r == RunLen(t, pos)
         IN  IF r >= MinUnderline THEN SubUnderline(t, pos + r)
             ELSE IF r > 0 THEN SubSeq(t, pos, pos + r - 1) \o SubUnderline(t, pos + r)
             ELSE <<t[pos]>> \o SubUnderline(t, pos + 1)

\* The lower case of the upper-case letters.
LowerOf ==
    [A |-> "a", B |-> "b", C |-> "c", D |-> "d", E |-> "e", F |-> "f", G
     |-> "g", H |-> "h", I |-> "i", J |-> "j", K |-> "k", L |-> "l", M
     |-> "m", N |-> "n", O |-> "o", P |-> "p", Q |-> "q", R |-> "r", S
     |-> "s", T |-> "t", U |-> "u", V |-> "v", W |-> "w", X |-> "x", Y
     |-> "y", Z |-> "z"]

\* str.lower() of one character: U+0130 lowers to two characters.
LowerChar(c) ==
    IF c = "Idot" THEN <<"i", "dot">>
    ELSE IF c \in DOMAIN LowerOf THEN <<LowerOf[c]>>
    ELSE <<c>>

\* str.lower(), character by character (computed by halves).
RECURSIVE Lower(_)
Lower(t) ==
    IF t = <<>> THEN <<>>
    ELSE IF Len(t) = 1 THEN LowerChar(t[1])
    ELSE LET h == Len(t) \div 2
         IN  Lower(SubSeq(t, 1, h)) \o Lower(SubSeq(t, h + 1, Len(t)))

clean_md(t) == Lower(SubUnderline(SubCode(SubRef(t, 1), 1), 1))

(***************************************************************************)
(* split_md, feature_store.py 92-128                                       *)
(*                                                                         *)
(* A segment is what MarkdownHeaderTextSplitter.split_text returns: a      *)
(* record [metadata, page_content], metadata a function from some of the   *)
(* header levels to their titles.                                          *)
(***************************************************************************)
SplitAt == 1024

MinChunk == 10

ChunkSize == 768

\* header, lines 103-112: "Header 2" and "Header 3" are each appended after
\* a space, whether or not anything precedes them.
HeaderOf(doc) ==
    LET m == doc.metadata
        h1 == IF "Header 1" \in DOMAIN m THEN m["Header 1"] ELSE <<>>
        h2 == IF "Header 2" \in DOMAIN m THEN <<" ">> \o m["Header 2"] ELSE <<>>
        h3 == IF "Header 3" \in DOMAIN m THEN <<" ">> \o m["Header 3"] ELSE <<>>
    IN  h1 \o h2 \o h3

\* '{} {}'.format(header, body.lower()), lines 118-119 and 121-122
Format(header, body) == header \o <<" ">> \o Lower(body)

\* A slip in line 114: > for >=.
NeedsSplitAbove(doc) == Len(doc.page_content) > SplitAt

\* Line 114: the segment is handed to md_splitter.
NeedsSplit(doc) == Len(doc.page_content) >= SplitAt

\* Line 117 and line 120: what is long enough to be kept.
Kept(body) == Len(body) >= MinChunk

\* The bodies of one segment, lines 114-122: the pieces of md_splitter that
\* are long enough, or the segment's own content when it is.
RECURSIVE KeptOf(_)
KeptOf(pieces) ==
    IF pieces = <<>> THEN <<>>
    ELSE (IF Kept(Head(pieces)) THEN <<Head(pieces)>> ELSE <<>>)
         \o KeptOf(Tail(pieces))

BodiesOf(doc, sub) ==
    IF NeedsSplit(doc) THEN KeptOf(sub)
    ELSE IF Kept(doc.page_content) THEN <<doc.page_content>>
    ELSE <<>>

ChunksOf(doc, sub) ==
    LET b == BodiesOf(doc, sub)
    IN  [k \in 1..Len(b) |-> Format(HeaderOf(doc), b[k])]

\* The loop of lines 102-122 over the segments ds, sub[i] being what
\* md_splitter returned for ds[i].
RECURSIVE split_md(_, _)
split_md(ds, sub) ==
    IF ds = <<>> THEN <<>>
    ELSE ChunksOf(Head(ds), Head(sub)) \o split_md(Tail(ds), Tail(sub))

(***************************************************************************)
(* md_splitter.create_documents (langchain's MarkdownTextSplitter, line    *)
(* 115) is not part of this file: it returns any sequence of at most       *)
(* MaxPieces pieces of the content, a piece being shorter than MinChunk,   *)
(* of the window's size, or the whole content (no split was possible).     *)
(***************************************************************************)
MaxPieces == 2

PieceLens(content) == {MinChunk - 1, ChunkSize, Len(content)}

Pieces(content) == { SubSeq(content, 1, n) : n \in PieceLens(content) }

SeqsUpTo(S, n) == UNION { [1..k -> S] : k \in 0..n }

create_documents(doc) ==
    IF NeedsSplit(doc) THEN SeqsUpTo(Pieces(doc.page_content), MaxPieces)
    ELSE {<<>>}

RECURSIVE SubdocChoices(_)
SubdocChoices(ds) ==
    IF ds = <<>> THEN {<<>>}
    ELSE { <<o>> \o r : o \in create_documents(Head(ds)), r \in SubdocChoices(Tail(ds)) }

(***************************************************************************)
(* FileOperation (file_operation.py) is imported by feature_store.py and   *)
(* is not among the sources: get_type classifies a path, here by the       *)
(* suffix of its name, and read returns the text of a file.                *)
(***************************************************************************)
EndsWith(t, suf) ==
    Len(t) >= Len(suf) /\ SubSeq(t, Len(t) - Len(suf) + 1, Len(t)) = suf

get_type(base) ==
    CASE EndsWith(base, <<".", "m", "d">>) -> "md"
      [] EndsWith(base, <<".", "t", "x", "t">>) -> "text"
      [] EndsWith(base, <<".", "p", "n", "g">>) -> "image"
      [] OTHER -> "None"

read(content) == content

(***************************************************************************)
(* The files of the repository directory. A path is [dir, base, content,   *)
(* readable]; shutil.copy raises on a file that is not readable.           *)
(***************************************************************************)
NameChangelog == <<"c", "h", "a", "n", "g", "e", "l", "o", "g", ".", "m", "d">>
NameX == <<"x", ".", "m", "d">>
NameN == <<"n", ".", "t", "x", "t">>
NameP == <<"p", ".", "p", "n", "g">>
NameZ == <<"z", ".", "b", "i", "n">>
NameLocked == <<"l", "o", "c", "k", "e", "d", ".", "m", "d">>

Empty == <<>>
TextLink == <<"S", "e", "e", " ", "[", "d", "o", "c", "]", "(", "u", ")">>
TextNotes == <<"U", "s", "a", "g", "e", " ", "n", "o", "t", "e", "s">>

\* The repository directory as Path.glob lists it (line 454).
RepoListing ==
    << [dir |-> "a", base |-> NameChangelog, content |-> Empty, readable |-> TRUE],
       [dir |-> "a", base |-> NameX, content |-> TextLink, readable |-> TRUE],
       [dir |-> "b", base |-> NameX, content |-> TextNotes, readable |-> TRUE],
       [dir |-> "a", base |-> NameN, content |-> Empty, readable |-> TRUE],
       [dir |-> "a", base |-> NameP, content |-> Empty, readable |-> TRUE],
       [dir |-> "a", base |-> NameZ, content |-> Empty, readable |-> TRUE],
       [dir |-> "a", base |-> NameLocked, content |-> TextNotes, readable |-> FALSE] >>

\* The elements of q at the positions I, in their order.
RECURSIVE Pick(_, _, _)
Pick(q, I, i) ==
    IF i > Len(q) THEN <<>>
    ELSE (IF i \in I THEN <<q[i]>> ELSE <<>>) \o Pick(q, I, i + 1)

\* The lists of at most n paths of the repository, each path once.
PathLists(n) ==
    { Pick(RepoListing, I, 1) :
        I \in { J \in SUBSET (1..Len(RepoListing)) : Cardinality(J) <= n } }

\* The order in which a directory is listed (Path.glob); any fixed order.
NameOrder == <<NameChangelog, NameX, NameN, NameP, NameZ, NameLocked>>

(***************************************************************************)
(* preprocess, feature_store.py 276-324                                    *)
(***************************************************************************)
Put(f, k, v) == [x \in DOMAIN f \cup {k} |-> IF x = k THEN v ELSE f[x]]

Supported == {"pdf", "md", "text", "word", "excel"}

\* Lines 311-313 and 317-319: the copy under the base name, which replaces a
\* file of that name, or the exception it raises.
Copy(st, p) ==
    IF ~p.readable THEN [st EXCEPT !.fail_cnt = @ + 1]
    ELSE [st EXCEPT !.files = Put(@, p.base, p.content), !.success_cnt = @ + 1]

\* One iteration of the loop, lines 304-319: an image is passed over and
\* counted nowhere.
Visit(st, p) ==
    LET type == get_type(p.base)
    IN  IF type = "image" THEN st
        ELSE IF type \in Supported THEN Copy(st, p)
        ELSE [st EXCEPT !.skip_cnt = @ + 1]

RECURSIVE Loop(_, _)
Loop(paths, st) ==
    IF paths = <<>> THEN st ELSE Loop(Tail(paths), Visit(st, Head(paths)))

\* Lines 291-324: the directory is removed and made anew, then filled.
preprocess(paths) ==
    Loop(paths, [files |-> <<>>, success_cnt |-> 0, fail_cnt |-> 0, skip_cnt |-> 0])

(***************************************************************************)
(* The documents of a file, feature_store.py 151-175 and 216-239           *)
(***************************************************************************)
\* The lines of a text.
RECURSIVE Lines(_, _)
Lines(t, cur) ==
    IF t = <<>> THEN <<cur>>
    ELSE IF Head(t) = NL THEN <<cur>> \o Lines(Tail(t), <<>>)
    ELSE Lines(Tail(t), Append(cur, Head(t)))

RECURSIVE LStrip(_)
LStrip(t) == IF t # <<>> /\ Head(t) \in {" ", NL} THEN LStrip(Tail(t)) ELSE t

RECURSIVE RStrip(_)
RStrip(t) ==
    IF t # <<>> /\ t[Len(t)] \in {" ", NL} THEN RStrip(SubSeq(t, 1, Len(t) - 1)) ELSE t

Strip(t) == RStrip(LStrip(t))

RECURSIVE JoinLines(_)
JoinLines(ls) ==
    IF ls = <<>> THEN <<>>
    ELSE IF Len(ls) = 1 THEN ls[1]
    ELSE ls[1] \o <<NL>> \o JoinLines(Tail(ls))

RECURSIVE Stripped(_)
Stripped(ls) ==
    IF ls = <<>> THEN <<>>
    ELSE (IF Strip(Head(ls)) = <<>> THEN <<>> ELSE <<Strip(Head(ls))>>)
         \o Stripped(Tail(ls))

\* head_splitter.split_text (langchain's MarkdownHeaderTextSplitter, line
\* 99) for a text none of whose lines is a header and whose blank lines are
\* at its end: one segment without metadata, holding the stripped lines.
head_split(t) ==
    LET ls == Stripped(Lines(t, <<>>))
    IN  IF ls = <<>> THEN <<>>
        ELSE <<[metadata |-> <<>>, page_content |-> JoinLines(ls)]>>

\* text_splitter.create_documents (langchain's RecursiveCharacterTextSplitter,
\* line 170) for a text within its window: the stripped text, if any.
text_split(t) == IF Strip(t) = <<>> THEN <<>> ELSE <<Strip(t)>>

Documents(chunks, source) ==
    [k \in 1..Len(chunks) |-> [page_content |-> chunks[k], source |-> source]]

\* The texts here stay below SplitAt: md_splitter is not reached.
MdChunks(t) ==
    LET segs == head_split(t)
    IN  split_md(segs, [i \in 1..Len(segs) |-> <<>>])

\* Lines 151-165
get_md_documents(base, content) ==
    LET t == base \o <<NL>> \o clean_md(content)
    IN  IF Len(t) <= 1 THEN <<>> ELSE Documents(MdChunks(t), base)

\* Lines 167-175
get_text_documents(t, base) ==
    IF Len(t) <= 1 THEN <<>> ELSE Documents(text_split(t), base)

\* Lines 221-234: the reject index takes the markdown as it is.
reject_md_documents(base, content) ==
    LET t == (base \o <<NL>>) \o content
    IN  IF Len(t) <= 1 THEN <<>> ELSE Documents(MdChunks(t), base)

\* One iteration of the loop of ingress_response (188-200) or of
\* ingress_reject (216-239).
FileDocuments(feature, base, content) ==
    IF get_type(base) = "md"
    THEN IF feature = "db_response" THEN get_md_documents(base, content)
         ELSE reject_md_documents(base, content)
    ELSE get_text_documents(base \o read(content), base)

RECURSIVE DocumentsOf(_, _, _)
DocumentsOf(feature, names, files) ==
    IF names = <<>> THEN <<>>
    ELSE FileDocuments(feature, Head(names), files[Head(names)])
         \o DocumentsOf(feature, Tail(names), files)

InDir(files) == LET Present(n) == n \in DOMAIN files IN SelectSeq(NameOrder, Present)

\* Lines 184-200 and 212-239: the directory is listed when the build runs.
ingress_documents(feature, files) == DocumentsOf(feature, InDir(files), files)

\* Vectorstore.from_documents (lines 202 and 241): FAISS raises on an empty
\* list, and the embedding call may fail.
from_documents_ok(documents, embedOk) == documents # <<>> /\ embedOk

\* ingress_response (177-203) and ingress_reject (205-242) on the index
\* directories d: the directory is made, the files now in work_dir/preprocess
\* are read, and the index is saved unless from_documents raised.
ingress(feature, files, d, embedOk) ==
    LET documents == ingress_documents(feature, files)
        ok == from_documents_ok(documents, embedOk)
    IN  [ok |-> ok,
         db |-> [d EXCEPT ![feature] =
                    IF ok THEN [exists |-> TRUE, saved |-> TRUE, index |-> documents]
                    ELSE [@ EXCEPT !.exists = TRUE]],
         read |-> { [name |-> n, content |-> files[n]] : n \in DOMAIN files }]

(***************************************************************************)
(* load_feature, feature_store.py 244-274                                  *)
(***************************************************************************)
\* A slip in line 254: and for or.
MissingBoth(d, resp, rej) == ~d[resp].exists /\ ~d[rej].exists

\* Line 254
Missing(d, resp, rej) == ~d[resp].exists \/ ~d[rej].exists

\* The fields and the outcome of load_feature(work_dir, resp, rej) on a store
\* whose fields are obj, d being the index directories. Vectorstore.load_local
\* raises on a directory that holds no saved index.
load_feature(obj, d, resp, rej) ==
    IF Missing(d, resp, rej)
    THEN [obj EXCEPT !.result = "missing"]
    ELSE IF ~d[rej].saved
    THEN [obj EXCEPT !.result = "load_error"]
    ELSE IF ~d[resp].saved
    THEN [obj EXCEPT !.rejecter = rej, !.result = "load_error"]
    ELSE [rejecter |-> rej, retriever |-> resp, compression_retriever |-> resp,
          result |-> "ok"]

(***************************************************************************)
(* SpecMd: split_md applied to every sequence of at most MaxDocs segments  *)
(* drawn from Segments.                                                    *)
(***************************************************************************)
MaxDocs == 2

Rep(c, n) == [i \in 1..n |-> c]

Levels == {"Header 1", "Header 2", "Header 3"}

Title(level) ==
    CASE level = "Header 1" -> <<"I", "n">>
      [] level = "Header 2" -> <<"U", "s", "e">>
      [] level = "Header 3" -> <<"F", "A", "Q">>

Metadatas == { [l \in L |-> Title(l)] : L \in SUBSET Levels }

\* Contents around the two thresholds, with upper-case characters in them.
Contents ==
    { Rep("x", MinChunk - 1),
      <<"Idot">> \o Rep("x", MinChunk - 1),
      <<"A">> \o Rep("x", SplitAt - 2),
      <<"A">> \o Rep("x", SplitAt - 1) }

Segments == [metadata : Metadatas, page_content : Contents]

InitMd ==
    /\ CleanIdle
    /\ StoreIdle
    /\ MainIdle
    /\ docs \in SeqsUpTo(Segments, MaxDocs)
    /\ subdocs = <<>>
    /\ final = <<>>
    /\ mdPc = "input"

CallSplitMd ==
    /\ mdPc = "input"
    /\ \E sub \in SubdocChoices(docs) :
          /\ subdocs' = sub
          /\ final' = split_md(docs, sub)
    /\ mdPc' = "done"
    /\ UNCHANGED <<docs, cleanVars, storeVars, mainVars>>

NextMd == CallSplitMd

SpecMd == InitMd /\ [][NextMd]_vars

(***************************************************************************)
(* SpecClean: clean_md applied to every text of at most MaxTextLen         *)
(* characters over CleanAlphabet.                                          *)
(***************************************************************************)
CleanAlphabet == {"[", "]", "(", ")", "A"}

\* A horizontal rule of exactly MinUnderline underscores.
Rule == [i \in 1..MinUnderline |-> "_"]

InitClean == CleanIdle /\ MdIdle /\ StoreIdle /\ MainIdle

TypeChar ==
    /\ cleanPc = "input"
    /\ Len(text) < MaxTextLen
    /\ \E c \in CleanAlphabet : text' = Append(text, c)
    /\ UNCHANGED <<new_text, again, cleanPc, mdVars, storeVars, mainVars>>

\* A code fence and a horizontal rule are typed as a whole.
TypeMark ==
    /\ cleanPc = "input"
    /\ \E m \in {Fence, Rule} :
          /\ Len(text) + Len(m) <= MaxTextLen
          /\ text' = text \o m
    /\ UNCHANGED <<new_text, again, cleanPc, mdVars, storeVars, mainVars>>

CallCleanMd ==
    /\ cleanPc = "input"
    /\ new_text' = clean_md(text)
    /\ again' = clean_md(clean_md(text))
    /\ cleanPc' = "done"
    /\ UNCHANGED <<text, mdVars, storeVars, mainVars>>

NextClean == TypeChar \/ TypeMark \/ CallCleanMd

SpecClean == InitClean /\ [][NextClean]_vars

(***************************************************************************)
(* SpecStore: initialize, load_feature and the construction of a store,    *)
(* called in any order on one work directory, while something else may     *)
(* write to work_dir/preprocess during an initialize.                      *)
(***************************************************************************)
MaxPaths == 2

MaxCalls == 3

MaxEnvChanges == 1

InitStore == CleanIdle /\ MdIdle /\ StoreIdle /\ MainIdle

\* initialize, lines 326-343, up to the return of preprocess (336-339).
CallInitialize ==
    /\ initPc = "idle"
    /\ calls < MaxCalls
    /\ \E paths \in PathLists(MaxPaths) :
          LET r == preprocess(paths)
          IN  /\ filepaths' = paths
              /\ preDir' = [exists |-> TRUE, files |-> r.files]
              /\ counter' = <<r.success_cnt, r.fail_cnt, r.skip_cnt>>
              /\ IF r.success_cnt > 0
                 THEN initPc' = "ingress_response" /\ initResult' = "running"
                 ELSE initPc' = "idle" /\ initResult' = "returned"
    /\ touched' = FALSE
    /\ readBy' = [d \in DbNames |-> {}]
    /\ builtNow' = {}
    /\ calls' = calls + 1
    /\ lastCall' = "initialize"
    /\ UNCHANGED <<db, objVars, envChanges, cleanVars, mdVars, mainVars>>

\* One build of initialize, line 340 or 341.
Ingress(feature, nextPc) ==
    \E embedOk \in BOOLEAN :
        LET r == ingress(feature, preDir.files, db, embedOk)
        IN  /\ db' = r.db
            /\ readBy' = [readBy EXCEPT ![feature] = r.read]
            /\ builtNow' = IF r.ok THEN builtNow \cup {feature} ELSE builtNow
            /\ initPc' = IF r.ok THEN nextPc ELSE "idle"
            /\ initResult' = IF ~r.ok THEN "raised"
                             ELSE IF nextPc = "idle" THEN "returned" ELSE "running"

IngressResponse ==
    /\ initPc = "ingress_response"
    /\ Ingress("db_response", "ingress_reject")
    /\ UNCHANGED <<filepaths, preDir, counter, touched, objVars, calls, lastCall,
                   envChanges, cleanVars, mdVars, mainVars>>

IngressReject ==
    /\ initPc = "ingress_reject"
    /\ Ingress("db_reject", "idle")
    /\ UNCHANGED <<filepaths, preDir, counter, touched, objVars, calls, lastCall,
                   envChanges, cleanVars, mdVars, mainVars>>

\* Something else rewrites or removes a file of work_dir/preprocess while
\* initialize is between its two builds.
EnvContents == {Empty, TextNotes}

EnvChange ==
    /\ initPc = "ingress_reject"
    /\ envChanges < MaxEnvChanges
    /\ \E n \in DOMAIN preDir.files :
          \/ \E c \in EnvContents \ {preDir.files[n]} :
                preDir' = [preDir EXCEPT !.files[n] = c]
          \/ preDir' = [preDir EXCEPT !.files =
                          [x \in DOMAIN preDir.files \ {n} |-> preDir.files[x]]]
    /\ touched' = TRUE
    /\ envChanges' = envChanges + 1
    /\ UNCHANGED <<filepaths, counter, db, initPc, initResult, readBy, builtNow,
                   objVars, calls, lastCall, cleanVars, mdVars, mainVars>>

Fields ==
    [rejecter |-> rejecter, retriever |-> retriever,
     compression_retriever |-> compression_retriever, result |-> loadResult.result]

CallLoadFeature ==
    /\ initPc = "idle"
    /\ calls < MaxCalls
    /\ \E resp \in RespNames, rej \in RejNames :
          LET r == load_feature(Fields, db, resp, rej)
          IN  /\ rejecter' = r.rejecter
              /\ retriever' = r.retriever
              /\ compression_retriever' = r.compression_retriever
              /\ loadResult' = [resp |-> resp, rej |-> rej, result |-> r.result]
    /\ calls' = calls + 1
    /\ lastCall' = "load_feature"
    /\ UNCHANGED <<fsVars, envChanges, cleanVars, mdVars, mainVars>>

\* FeatureStore(...), lines 34-66: a new store, its three fields None.
NewFeatureStore ==
    /\ initPc = "idle"
    /\ calls < MaxCalls
    /\ loadResult.result # "none"
    /\ rejecter' = "None"
    /\ retriever' = "None"
    /\ compression_retriever' = "None"
    /\ loadResult' = [resp |-> "-", rej |-> "-", result |-> "none"]
    /\ calls' = calls + 1
    /\ lastCall' = "FeatureStore"
    /\ UNCHANGED <<fsVars, envChanges, cleanVars, mdVars, mainVars>>

NextStore ==
    \/ CallInitialize
    \/ IngressResponse
    \/ IngressReject
    \/ EnvChange
    \/ CallLoadFeature
    \/ NewFeatureStore

SpecStore == InitStore /\ [][NextStore]_vars

(***************************************************************************)
(* SpecMain: the entry point, feature_store.py 381-462, run once on a work *)
(* directory that is fresh or holds the indexes of an earlier run.         *)
(***************************************************************************)
MaxQuestions == 1

\* The built-in questions of test_reject (384-395) and test_query (430).
RejectQuestions == 10

QueryQuestions == 1

\* Lines 339-343 after both builds were attempted: r1 and r2 are the
\* outcomes of ingress_response and ingress_reject, p that of preprocess.
Outcome(p, d, r1, r2) ==
    LET none == [x \in DbNames |-> {}]
        out == [files |-> p.files,
                counter |-> <<p.success_cnt, p.fail_cnt, p.skip_cnt>>,
                db |-> d, read |-> none, built |-> {}, result |-> "returned"]
    IN  IF p.success_cnt = 0 THEN out
        ELSE IF ~r1.ok
        THEN [out EXCEPT !.db = r1.db, !.result = "raised",
                         !.read = [none EXCEPT !["db_response"] = r1.read]]
        ELSE IF ~r2.ok
        THEN [out EXCEPT !.db = r2.db, !.result = "raised",
                         !.built = {"db_response"},
                         !.read = [none EXCEPT !["db_response"] = r1.read,
                                               !["db_reject"] = r2.read]]
        ELSE [out EXCEPT !.db = r2.db, !.built = {"db_response", "db_reject"},
                         !.read = [none EXCEPT !["db_response"] = r1.read,
                                               !["db_reject"] = r2.read]]

\* Line 342: ingress_reject works on the directory ingress_response left.
ThenReject(p, d, r1, embedOk2) ==
    Outcome(p, d, r1, ingress("db_reject", p.files, r1.db, embedOk2))

\* Line 341: ingress_response on the files preprocess copied.
ThenResponse(p, d, embedOk1, embedOk2) ==
    ThenReject(p, d, ingress("db_response", p.files, d, embedOk1), embedOk2)

\* initialize(filepaths, work_dir), lines 326-343, as one call: what it
\* leaves in the work directory and how it ends.
initialize(paths, d, embedOk1, embedOk2) ==
    ThenResponse(preprocess(paths), d, embedOk1, embedOk2)

\* The methods FeatureStore defines (lines 34-343). __main__ also calls
\* update_throttle (457), is_reject (402) and query (436) on a FeatureStore:
\* the attribute lookup raises AttributeError.
Methods ==
    {"__init__", "is_chinese_doc", "cos_similarity", "distance", "split_md",
     "clean_md", "get_md_documents", "get_text_documents", "ingress_response",
     "ingress_reject", "load_feature", "preprocess", "initialize"}

NewObj ==
    [rejecter |-> "None", retriever |-> "None", compression_retriever |-> "None",
     result |-> "none"]

\* The work directory an earlier run with a working embedding model left.
EarlierRun(paths) == initialize(paths, [d \in DbNames |-> NoDir], TRUE, TRUE)

\* The work directory at line 443: fresh, or as the earlier run r left it.
WorkDir(earlier, r) ==
    /\ preDir = IF earlier THEN [exists |-> TRUE, files |-> r.files]
                ELSE [exists |-> FALSE, files |-> <<>>]
    /\ db = IF earlier THEN r.db ELSE [d \in DbNames |-> NoDir]

InitMain ==
    /\ CleanIdle
    /\ MdIdle
    /\ mainPc = "start"
    /\ sample \in {"None", "sample.json"}
    /\ questions \in 0..MaxQuestions
    /\ done = <<>>
    /\ err = "none"
    /\ filepaths \in PathLists(MaxPaths)
    /\ \E earlier \in BOOLEAN : WorkDir(earlier, EarlierRun(<<RepoListing[2]>>))
    /\ counter = <<0, 0, 0>>
    /\ touched = FALSE
    /\ initPc = "idle"
    /\ initResult = "none"
    /\ readBy = [d \in DbNames |-> {}]
    /\ builtNow = {}
    /\ rejecter = "None"
    /\ retriever = "None"
    /\ compression_retriever = "None"
    /\ loadResult = [resp |-> "-", rej |-> "-", result |-> "none"]
    /\ calls = 0
    /\ lastCall = "none"
    /\ envChanges = 0

\* Line 446: with --sample the program goes straight to line 461.
MainBranch ==
    /\ mainPc = "start"
    /\ mainPc' = IF sample = "None" THEN "initialize" ELSE "test_reject"
    /\ UNCHANGED <<sample, questions, done, err, storeVars, cleanVars, mdVars>>

\* The program after fs_init.initialize ended as r says.
Initialized(r) ==
    /\ preDir' = [exists |-> TRUE, files |-> r.files]
    /\ counter' = r.counter
    /\ db' = r.db
    /\ readBy' = r.read
    /\ builtNow' = r.built
    /\ initResult' = r.result
    /\ IF r.result = "returned"
       THEN /\ mainPc' = "update_throttle"
            /\ done' = Append(done, "initialize")
            /\ err' = err
       ELSE /\ mainPc' = "crashed"
            /\ done' = done
            /\ err' = "initialize"

\* Lines 448-456: fs_init = FeatureStore(...), fs_init.initialize(...).
MainInitialize ==
    /\ mainPc = "initialize"
    /\ \E e1 \in BOOLEAN, e2 \in BOOLEAN :
          Initialized(initialize(filepaths, db, e1, e2))
    /\ touched' = FALSE
    /\ calls' = calls + 1
    /\ lastCall' = "initialize"
    /\ UNCHANGED <<filepaths, initPc, objVars, envChanges, sample, questions,
                   cleanVars, mdVars>>

\* A call of the method m of a FeatureStore ends __main__ with an
\* AttributeError when the class does not define m.
CallMethod(m, next, step) ==
    IF m \in Methods
    THEN mainPc' = next /\ done' = Append(done, step) /\ err' = err
    ELSE mainPc' = "crashed" /\ done' = done /\ err' = "AttributeError"

\* Lines 457-458: fs_init.update_throttle(...).
MainUpdateThrottle ==
    /\ mainPc = "update_throttle"
    /\ CallMethod("update_throttle", "test_reject", "update_throttle")
    /\ UNCHANGED <<sample, questions, storeVars, cleanVars, mdVars>>

\* The program after load_feature ended as r says and the method m was
\* called on each of n questions.
Evaluated(r, m, n, next, step) ==
    /\ rejecter' = r.rejecter
    /\ retriever' = r.retriever
    /\ compression_retriever' = r.compression_retriever
    /\ loadResult' = [resp |-> "db_response", rej |-> "db_reject",
                      result |-> r.result]
    /\ calls' = calls + 1
    /\ lastCall' = "load_feature"
    /\ IF r.result # "ok"
       THEN mainPc' = "crashed" /\ done' = done /\ err' = "load_feature"
       ELSE IF n > 0
       THEN CallMethod(m, next, step)
       ELSE mainPc' = next /\ done' = Append(done, step) /\ err' = err

\* test_reject (381-420) and test_query (423-440): a new store, load_feature
\* with the default names, then the method m on each of n questions.
Evaluate(m, n, next, step) ==
    Evaluated(load_feature(NewObj, db, "db_response", "db_reject"), m, n, next, step)

MainTestReject ==
    /\ mainPc = "test_reject"
    /\ Evaluate("is_reject", IF sample = "None" THEN RejectQuestions ELSE questions,
                "test_query", "test_reject")
    /\ UNCHANGED <<fsVars, envChanges, sample, questions, cleanVars, mdVars>>

MainTestQuery ==
    /\ mainPc = "test_query"
    /\ Evaluate("query", IF sample = "None" THEN QueryQuestions ELSE questions,
                "exit", "test_query")
    /\ UNCHANGED <<fsVars, envChanges, sample, questions, cleanVars, mdVars>>

NextMain ==
    \/ MainBranch
    \/ MainInitialize
    \/ MainUpdateThrottle
    \/ MainTestReject
    \/ MainTestQuery

SpecMain == InitMain /\ [][NextMain]_vars

(***************************************************************************)
(* Properties of split_md (SpecMd)                                         *)
(***************************************************************************)
Elems(q) == { q[n] : n \in 1..Len(q) }

\* The texts a chunk of segment i can have been made from.
Sources(i) ==
    IF NeedsSplit(docs[i]) THEN Elems(subdocs[i]) ELSE {docs[i].page_content}

\* The chunk final[k] comes from a piece of SplitAt or more characters that
\* md_splitter returned for a segment of SplitAt or more characters.
FromUnshrunk(k) ==
    \E i \in 1..Len(docs) :
        /\ NeedsSplit(docs[i])
        /\ \E b \in Elems(subdocs[i]) :
              /\ Len(b) >= SplitAt
              /\ final[k] = Format(HeaderOf(docs[i]), b)

\* C1 as stated: every chunk split_md returns has at least 10 and fewer than
\* 1024 characters, unless it comes from a segment of 1024 or more characters
\* that the length-based splitter did not shrink.
C1_ChunkLength ==
    mdPc = "done" =>
        \A k \in 1..Len(final) :
            \/ Len(final[k]) >= MinChunk /\ Len(final[k]) < SplitAt
            \/ FromUnshrunk(k)

\* C1 as amended: every chunk is the header, a space and the lower-cased text
\* of a source (the content of a segment below 1024 characters, or a piece the
\* splitter returned for a longer one); the source, as it is before the prefix
\* and the lower-casing, has at least 10 and fewer than 1024 characters unless
\* it is such a piece of 1024 or more; the chunk has at least 11 characters.
C1_SourceLength ==
    mdPc = "done" =>
        \A k \in 1..Len(final) :
            /\ Len(final[k]) >= MinChunk + 1
            /\ \E i \in 1..Len(docs) : \E b \in Sources(i) :
                  /\ final[k] = Format(HeaderOf(docs[i]), b)
                  /\ Len(b) >= MinChunk
                  /\ Len(b) < SplitAt \/ FromUnshrunk(k)

\* A segment shorter than 1024 characters whose chunk has 1024 or more.
C1_Witness ==
    /\ mdPc = "done"
    /\ \E k \in 1..Len(final) :
          /\ Len(final[k]) >= SplitAt
          /\ ~FromUnshrunk(k)
          /\ \E i \in 1..Len(docs) :
                /\ ~NeedsSplit(docs[i])
                /\ final[k] = Format(HeaderOf(docs[i]), docs[i].page_content)

\* The header string the claim describes: the titles of the levels present,
\* in order, joined by single spaces.
RECURSIVE SpaceJoin(_)
SpaceJoin(titles) ==
    IF titles = <<>> THEN <<>>
    ELSE IF Len(titles) = 1 THEN titles[1]
    ELSE titles[1] \o <<" ">> \o SpaceJoin(Tail(titles))

ActiveTitles(doc) ==
    LET m == doc.metadata
        t(l) == IF l \in DOMAIN m THEN <<m[l]>> ELSE <<>>
    IN  t("Header 1") \o t("Header 2") \o t("Header 3")

RECURSIVE JoinedChunks(_, _)
JoinedChunks(ds, sub) ==
    IF ds = <<>> THEN <<>>
    ELSE LET b == BodiesOf(Head(ds), Head(sub))
         IN  [k \in 1..Len(b) |-> Format(SpaceJoin(ActiveTitles(Head(ds))), b[k])]
             \o JoinedChunks(Tail(ds), Tail(sub))

\* C2: every chunk is prefixed with the titles of its segment's Header 1,
\* Header 2 and Header 3 joined by single spaces, absent levels leaving no
\* separator, and all chunks of one segment carry the same header string.
C2_HeaderJoined ==
    mdPc = "done" => final = JoinedChunks(docs, subdocs)

(***************************************************************************)
(* Properties of the work directory and the store (SpecStore)              *)
(***************************************************************************)
Built == {"db_response", "db_reject"}

LoadFeatureStep == calls' = calls + 1 /\ lastCall' = "load_feature"

\* C4: load_feature raises whenever the response or the reject index directory
\* does not exist, and then sets none of rejecter, retriever and
\* compression_retriever, which a new store holds unset; it returns normally
\* only from two directories that hold a saved index, so never while no
\* initialize has built one.
C4_LoadRefusesMissing ==
    /\ [](loadResult.result = "none" =>
            /\ rejecter = "None"
            /\ retriever = "None"
            /\ compression_retriever = "None")
    /\ [](loadResult.result = "ok" =>
            /\ db[loadResult.resp].saved
            /\ db[loadResult.rej].saved
            /\ \E d \in Built : db[d].saved)
    /\ [][ (/\ LoadFeatureStep
            /\ ~db[loadResult'.resp].exists \/ ~db[loadResult'.rej].exists)
           => /\ loadResult'.result = "missing"
              /\ rejecter' = rejecter
              /\ retriever' = retriever
              /\ compression_retriever' = compression_retriever ]_vars

\* An initialize that copied nothing returned, and the load_feature after it
\* was refused.
C4_Witness ==
    /\ lastCall = "load_feature"
    /\ loadResult.result = "missing"
    /\ initResult = "returned"
    /\ builtNow = {}
    /\ rejecter = "None"

\* C5: an initialize that found no file to ingest, or whose files gave no
\* chunk, ends in an error or in a saved index: it never returns normally
\* having built no index.
C5_NoSilentEmpty ==
    (initPc = "idle" /\ initResult = "returned") => builtNow # {}

\* C6: an empty file contributes no entry to the response index or to the
\* reject index, whatever its type and its name.
C6_EmptyFileNoEntry ==
    \A d \in builtNow : \A k \in 1..Len(db[d].index) :
        ~\E f \in readBy[d] :
            /\ f.name = db[d].index[k].source
            /\ f.content = Empty

\* C7: within one initialize call the two indexes are built from the same
\* files with the same contents.
C7_SameFilesRead ==
    (initPc = "idle" /\ initResult = "returned" /\ builtNow = Built)
        => readBy["db_response"] = readBy["db_reject"]

\* C8: preprocess counts every input path in exactly one of success, fail and
\* skip: the three counts add up to the number of input paths.
C8_CountsAddUp ==
    counter[1] + counter[2] + counter[3] = Len(filepaths)

\* The base names of the inputs of a supported type whose copy succeeded.
CopiedNames ==
    { filepaths[i].base : i \in { j \in 1..Len(filepaths) :
        get_type(filepaths[j].base) \in Supported /\ filepaths[j].readable } }

\* C10: when preprocess has returned, work_dir/preprocess holds one file per
\* base name among the supported inputs that were copied and nothing else, and
\* the success count is the number of files in it.
C10_OneFilePerName ==
    (preDir.exists /\ ~touched) =>
        /\ DOMAIN preDir.files = CopiedNames
        /\ counter[1] = Cardinality(DOMAIN preDir.files)

(***************************************************************************)
(* Property of __main__ (SpecMain)                                         *)
(***************************************************************************)
\* C9: unless initialize or load_feature raised, a run without --sample
\* completes initialize, update_throttle, the reject evaluation and the
\* response evaluation, in this order, and a run with --sample completes the
\* two evaluations only; with --sample neither initialize nor update_throttle
\* runs.
C9_RunsInOrder ==
    /\ sample # "None" => mainPc \notin {"initialize", "update_throttle"}
    /\ (mainPc \in {"exit", "crashed"} /\ err \notin {"initialize", "load_feature"})
          => done = IF sample = "None"
                    THEN <<"initialize", "update_throttle", "test_reject", "test_query">>
                    ELSE <<"test_reject", "test_query">>

(***************************************************************************)
(* Property of clean_md (SpecClean)                                        *)
(***************************************************************************)
\* C3: clean_md is idempotent, clean_md(clean_md(x)) = clean_md(x) for every text x.
C3_CleanIdempotent == cleanPc = "done" => again = new_text

=============================================================================
